---- MODULE Spec2Model ----
(***************************************************************************)
(* Model of rust_src/src/decompress.rs: zlib_decompress_region, the        *)
(* in-place chunked decompression of a region of the current buffer.       *)
(*                                                                         *)
(* The buffer is a gap buffer: `text` is its logical content (positions    *)
(* are 1-based, position p lies before text[p]), `gpt`/`gap_size` describe *)
(* the gap and `beg_addr` names the allocation that backs the text.  The   *)
(* buffer primitives (validate_region, modify_text, move_gap_both,         *)
(* make_gap, insert_from_gap, del_range_2, signal_after_change, ...) are   *)
(* not part of decompress.rs; they are modelled by their contract.         *)
(* One behaviour is one call of zlib_decompress_region, stepped through    *)
(* the statements of the function by `pc`.                                 *)
(***************************************************************************)
EXTENDS Integers, Sequences, FiniteSets, TLC

\* ---------------------------------------------------------------- bounds
MaxLen == 2
MaxChunks == 2
MaxChunkLen == 1

\* ------------------------------------------------------ program constants
ZlibMagic == 120
GzipMagic == 31
AvailOut == 16 * 1024

\* Bytes a buffer may hold before the call: the two magic numbers and one
\* other byte.
InByte == {ZlibMagic, GzipMagic, 0}

\* The decoded stream: its byte at offset n (from 0).  The bytes differ from
\* one another and from InByte, so that a misplaced byte shows.
DecodedBase == 200
DecodedAt(n) == DecodedBase + n

\* The next len bytes of the decoded stream after `done` bytes.
DecodedChunk(done, len) == [i \in 1..len |-> DecodedAt(done + i - 1)]

Min(a, b) == IF a < b THEN a ELSE b

SeqsUpTo(S, n) == UNION {[1..k -> S] : k \in 0..n}

RECURSIVE Flatten(_)
Flatten(ss) == IF ss = <<>> THEN <<>> ELSE Head(ss) \o Flatten(Tail(ss))

NoView == [base |-> -1, off |-> 0, len |-> 0]

VARIABLES
    text, begv, zv, pt, pt_byte, gpt, gap_size, beg_addr, multibyte, gap_buf,
    pc, start, end, istart, iend, old_pt, compressed_buffer, decoder,
    decompressed_bytes, decompressed, gap_writer, outcome,
    text0, pt0, chunks, trace

buffer == <<text, begv, zv, pt, pt_byte, gpt, gap_size, beg_addr, multibyte, gap_buf>>
read_locals == <<start, end, istart, iend, old_pt, compressed_buffer, decoder,
                 decompressed_bytes, decompressed>>
locals == <<read_locals, gap_writer>>
ghost == <<text0, pt0, chunks>>
vars == <<buffer, locals, ghost, pc, outcome, trace>>

Z == Len(text) + 1

\* ------------------------------------------------- buffer primitives
\* (contracts of the text container; the code is outside decompress.rs)

\* validate_region: order the bounds; signal args_out_of_range unless
\* BEGV <= start and end <= ZV.
RegionLo(s, e) == IF s <= e THEN s ELSE e
RegionHi(s, e) == IF s <= e THEN e ELSE s
RegionInRange(s, e) == begv <= RegionLo(s, e) /\ RegionHi(s, e) <= zv

\* buf_charpos_to_bytepos in a unibyte buffer (Z = Z_BYTE): one byte per
\* character.  Only reached in unibyte buffers.
BufCharposToBytepos(charpos) == charpos

\* byte_pos_addr: the address of the byte at bytepos, as <<allocation,
\* offset>>; bytes at or after the gap lie gap_size further.
BytePosAddr(bytepos) ==
    [base |-> beg_addr,
     off |-> bytepos - 1 + (IF bytepos >= gpt THEN gap_size ELSE 0)]

\* The text with `bytes` inserted before position p.
InsertAt(t, p, bytes) == SubSeq(t, 1, p - 1) \o bytes \o SubSeq(t, p, Len(t))

\* The text with [from, to) removed.
DeleteRange(t, from, to) == SubSeq(t, 1, from - 1) \o SubSeq(t, to, Len(t))

\* A position after deleting [from, to).
PosAfterDelete(p, from, to) ==
    IF p <= from THEN p ELSE IF p >= to THEN p - (to - from) ELSE from

\* The borrowed slice still denotes the bytes [istart, iend) of the live
\* buffer text: same allocation, same offset, and the region is contiguous
\* below the gap.
ViewLive ==
    /\ compressed_buffer.base = beg_addr
    /\ compressed_buffer.off = istart - 1
    /\ gpt >= iend

Emit(ev) == trace' = Append(trace, ev)

\* ---------------------------------------------------------------- Init
Init ==
    /\ text \in SeqsUpTo(InByte, MaxLen)
    /\ begv = 1
    /\ zv = Len(text) + 1
    /\ pt \in begv..zv
    /\ pt_byte = pt
    /\ gpt \in {1, Len(text) + 1}
    /\ gap_size \in {0, AvailOut}
    /\ beg_addr = 0
    /\ multibyte \in BOOLEAN
    /\ gap_buf = <<>>
    /\ pc = "call"
    /\ start = 0 /\ end = 0 /\ istart = 0 /\ iend = 0
    /\ old_pt = 0
    /\ compressed_buffer = NoView
    /\ decoder = "none"
    /\ decompressed_bytes = 0
    /\ decompressed = 0
    /\ gap_writer = NoView
    /\ outcome = "none"
    /\ text0 = text
    /\ pt0 = pt
    /\ chunks = <<>>
    /\ trace = <<>>


\* ------------------------------------------------ zlib_decompress_region

\* create_buffer_decoder: the decoder variant, from the first byte of the
\* slice.
CreateBufferDecoder_Swapped(buf) ==
    LET magic_number == buf[1] IN
    IF magic_number = ZlibMagic THEN "gzip"
    ELSE IF magic_number = GzipMagic THEN "zlib"
    ELSE "deflate"

CreateBufferDecoder(buf) ==
    LET magic_number == buf[1] IN
    IF magic_number = ZlibMagic THEN "zlib"
    ELSE IF magic_number = GzipMagic THEN "gzip"
    ELSE "deflate"

\* `if istart == iend`
EmptyRegion_Never(s, e) == FALSE

EmptyRegion(s, e) == s = e

\* `data_end = iend + decompressed_bytes`
DataEnd_NoRollback(e, db) == e

DataEnd_TooFar(e, db) == e + db + 1

DataEnd(e, db) == e + db

\* The range of the success path's del_range_2.
CompressedRange_Empty(s, e) == <<s, s>>

CompressedRange(s, e) == <<s, e>>

\* The arguments of the success path's signal_after_change.
SuccessChange_Balanced(s, e, db) == <<s, e - s, e - s>>

SuccessChange(s, e, db) == <<s, e - s, db>>

\* The arguments of the failure path's signal_after_change
\* (data_orig, data_start - data_orig, data_start - data_orig).
FailureChange_NetInsert(s, e, db) == <<s, e - s, e - s + db>>

FailureChange(s, e, db) == <<s, e - s, e - s>>

\* `min(old_pt, current_buffer.zv)`
RestoredPt_PointMax(old, z) == z

RestoredPt(old, z) == Min(old, z)

\* Entry: validate_region(&mut start, &mut end).
Call ==
    /\ pc = "call"
    /\ \E s, e \in 1..(Len(text) + 2) :
        /\ start' = RegionLo(s, e)
        /\ end' = RegionHi(s, e)
        /\ IF RegionInRange(s, e)
             THEN pc' = "check_multibyte" /\ outcome' = outcome
             ELSE pc' = "done" /\ outcome' = "args_out_of_range"
    /\ Emit(<<"validate_region">>)
    /\ UNCHANGED <<buffer, ghost, istart, iend, old_pt, compressed_buffer,
                   decoder, decompressed_bytes, decompressed, gap_writer>>

\* `if current_buffer.multibyte_characters_enabled() { error!(...) }`,
\* then istart/iend.
CheckUnibyte_Soft ==
    /\ pc = "check_multibyte"
    /\ IF multibyte
         THEN pc' = "done" /\ outcome' = "false" /\ UNCHANGED <<istart, iend>>
         ELSE pc' = "check_empty" /\ outcome' = outcome
              /\ istart' = start /\ iend' = end
    /\ Emit(<<"multibyte_characters_enabled">>)
    /\ UNCHANGED <<buffer, ghost, start, end, old_pt, compressed_buffer,
                   decoder, decompressed_bytes, decompressed, gap_writer>>

CheckUnibyte ==
    /\ pc = "check_multibyte"
    /\ IF multibyte
         THEN pc' = "done" /\ outcome' = "error" /\ UNCHANGED <<istart, iend>>
         ELSE pc' = "check_empty" /\ outcome' = outcome
              /\ istart' = start /\ iend' = end
    /\ Emit(<<"multibyte_characters_enabled">>)
    /\ UNCHANGED <<buffer, ghost, start, end, old_pt, compressed_buffer,
                   decoder, decompressed_bytes, decompressed, gap_writer>>

\* `if istart == iend { return false; }`
CheckEmpty_SkipNotify ==
    /\ pc = "check_empty"
    /\ IF EmptyRegion(istart, iend)
         THEN pc' = "done" /\ outcome' = "false"
         ELSE pc' = "move_gap" /\ outcome' = outcome
    /\ Emit(<<"empty_region_test">>)
    /\ UNCHANGED <<buffer, ghost, locals>>

CheckEmpty ==
    /\ pc = "check_empty"
    /\ IF EmptyRegion(istart, iend)
         THEN pc' = "done" /\ outcome' = "false"
         ELSE pc' = "modify_text" /\ outcome' = outcome
    /\ Emit(<<"empty_region_test">>)
    /\ UNCHANGED <<buffer, ghost, locals>>

\* `modify_text(istart, iend)`: the pre-change notification.
ModifyText ==
    /\ pc = "modify_text"
    /\ Emit(<<"modify_text", istart, iend>>)
    /\ pc' = "move_gap"
    /\ UNCHANGED <<buffer, ghost, locals, outcome>>

\* `move_gap_both(iend, iend)`
MoveGapBoth ==
    /\ pc = "move_gap"
    /\ gpt' = iend
    /\ Emit(<<"move_gap_both", iend>>)
    /\ pc' = "set_pt"
    /\ UNCHANGED <<text, begv, zv, pt, pt_byte, gap_size, beg_addr, multibyte,
                   gap_buf, ghost, locals, outcome>>

\* `old_pt = current_buffer.pt; current_buffer.set_pt_both(charpos, bytepos)`
SavePtAndSetPt_SaveAfter ==
    /\ pc = "set_pt"
    /\ old_pt' = iend
    /\ pt' = iend
    /\ pt_byte' = BufCharposToBytepos(iend)
    /\ Emit(<<"set_pt_both", iend>>)
    /\ pc' = "view"
    /\ UNCHANGED <<text, begv, zv, gpt, gap_size, beg_addr, multibyte, gap_buf,
                   ghost, start, end, istart, iend, compressed_buffer, decoder,
                   decompressed_bytes, decompressed, gap_writer, outcome>>

SavePtAndSetPt ==
    /\ pc = "set_pt"
    /\ old_pt' = pt
    /\ pt' = iend
    /\ pt_byte' = BufCharposToBytepos(iend)
    /\ Emit(<<"set_pt_both", iend>>)
    /\ pc' = "view"
    /\ UNCHANGED <<text, begv, zv, gpt, gap_size, beg_addr, multibyte, gap_buf,
                   ghost, start, end, istart, iend, compressed_buffer, decoder,
                   decompressed_bytes, decompressed, gap_writer, outcome>>

\* `compressed_buffer = slice::from_raw_parts(byte_pos_addr(istart), iend - istart)`
AcquireView ==
    /\ pc = "view"
    /\ compressed_buffer' =
         [base |-> BytePosAddr(istart).base, off |-> BytePosAddr(istart).off,
          len |-> iend - istart]
    /\ Emit(<<"from_raw_parts", istart, iend - istart>>)
    /\ pc' = "decoder"
    /\ UNCHANGED <<buffer, ghost, start, end, istart, iend, old_pt, decoder,
                   decompressed_bytes, decompressed, gap_writer, outcome>>

\* `decoder = create_buffer_decoder(compressed_buffer); decompressed_bytes = 0`
CreateDecoder ==
    /\ pc = "decoder"
    /\ LET buf == SubSeq(text, compressed_buffer.off + 1,
                         compressed_buffer.off + compressed_buffer.len) IN
       IF buf = <<>>
         THEN pc' = "done" /\ outcome' = "panic" /\ decoder' = decoder
              /\ Emit(<<"panic">>)
         ELSE pc' = "loop" /\ outcome' = outcome
              /\ decoder' = CreateBufferDecoder(buf)
              /\ Emit(<<"create_buffer_decoder", CreateBufferDecoder(buf)>>)
    /\ decompressed_bytes' = 0
    /\ UNCHANGED <<buffer, ghost, start, end, istart, iend, old_pt,
                   compressed_buffer, decompressed, gap_writer>>


\* make_gap(nbytes_increment): enlarge the gap; the text may be reallocated
\* (moved to another allocation) or extended in place.  Allocation 0 is the
\* one the buffer has at entry, 1 stands for any later one.
MakeGap(nbytes_increment) ==
    /\ gap_size' = gap_size + nbytes_increment
    /\ beg_addr' \in {beg_addr, 1}

\* The argument of make_gap: `avail_out - old_gap_size`.
GapIncrement_Short(old_gap_size) == AvailOut - old_gap_size - 1

GapIncrement(old_gap_size) == AvailOut - old_gap_size

\* `new_gap_size = avail_out;
\*  gap_writer = slice::from_raw_parts_mut(gap_start_addr(), new_gap_size)`:
\* the output window, as allocation, offset and length.
GapWriter ==
    [base |-> beg_addr, off |-> gpt - 1, len |-> AvailOut]

\* `old_gap_size = current_buffer.gap_size();
\*  if old_gap_size < avail_out { make_gap(avail_out - old_gap_size) }`
EnsureGap ==
    /\ pc = "loop"
    /\ LET old_gap_size == gap_size IN
       IF old_gap_size < AvailOut
         THEN /\ MakeGap(GapIncrement(old_gap_size))
              /\ trace' = trace \o << <<"gap_size", old_gap_size>>,
                                      <<"make_gap", GapIncrement(old_gap_size)>> >>
         ELSE /\ UNCHANGED <<gap_size, beg_addr>>
              /\ Emit(<<"gap_size", old_gap_size>>)
    /\ pc' = "read"
    /\ UNCHANGED <<text, begv, zv, pt, pt_byte, gpt, multibyte, gap_buf,
                   ghost, locals, outcome>>

\* `decoder.read(gap_writer)` returns Ok(0).
ReadEof ==
    /\ pc = "read"
    /\ gap_writer' = GapWriter
    /\ Emit(<<"read", decoder>>)
    /\ pc' = "success_delete"
    /\ UNCHANGED <<buffer, ghost, read_locals, outcome>>

\* `decoder.read(gap_writer)` returns Ok(decompressed), decompressed > 0:
\* the decoder has written the chunk at the gap start.
ReadChunk ==
    /\ pc = "read"
    /\ Len(chunks) < MaxChunks
    /\ \E n \in 1..MaxChunkLen :
        LET c == DecodedChunk(decompressed_bytes, n) IN
        /\ n <= AvailOut
        /\ gap_buf' = c
        /\ decompressed' = n
        /\ chunks' = Append(chunks, c)
    /\ gap_writer' = GapWriter
    /\ Emit(<<"read", decoder>>)
    /\ pc' = "insert"
    /\ UNCHANGED <<text, begv, zv, pt, pt_byte, gpt, gap_size, beg_addr,
                   multibyte, text0, pt0, start, end, istart, iend, old_pt,
                   compressed_buffer, decoder, decompressed_bytes, outcome>>

\* `decoder.read(gap_writer)` returns Err(_).
ReadErr_Retry ==
    /\ pc = "read"
    /\ gap_writer' = GapWriter
    /\ Emit(<<"read", decoder>>)
    /\ pc' = "loop"
    /\ UNCHANGED <<buffer, ghost, read_locals, outcome>>

ReadErr ==
    /\ pc = "read"
    /\ gap_writer' = GapWriter
    /\ Emit(<<"read", decoder>>)
    /\ pc' = "failure_delete"
    /\ UNCHANGED <<buffer, ghost, read_locals, outcome>>

\* `decoder.read(gap_writer)` through a slice whose allocation was released
\* by make_gap: besides the three results above, the read may fault.
ReadFault ==
    /\ pc = "read"
    /\ ~ViewLive
    /\ gap_writer' = GapWriter
    /\ Emit(<<"read", decoder>>)
    /\ pc' = "done"
    /\ outcome' = "fault"
    /\ UNCHANGED <<buffer, ghost, read_locals>>

\* insert_from_gap(nchars, nbytes, false): the first nbytes bytes of the gap
\* become text at the gap start; the gap, the cursor and ZV move past them.
InsertFromGap(nbytes) ==
    /\ text' = InsertAt(text, gpt, SubSeq(gap_buf, 1, nbytes))
    /\ gap_buf' = <<>>
    /\ gpt' = gpt + nbytes
    /\ gap_size' = gap_size - nbytes
    /\ zv' = zv + nbytes
    /\ pt' = pt + nbytes
    /\ pt_byte' = pt_byte + nbytes

\* `insert_from_gap(decompressed, decompressed, false);
\*  decompressed_bytes += decompressed`
Commit_NoPoll ==
    /\ pc = "insert"
    /\ InsertFromGap(decompressed)
    /\ decompressed_bytes' = decompressed_bytes + decompressed
    /\ Emit(<<"insert_from_gap", decompressed>>)
    /\ pc' = "loop"
    /\ UNCHANGED <<begv, beg_addr, multibyte, ghost, start, end, istart, iend,
                   old_pt, compressed_buffer, decoder, decompressed, gap_writer,
                   outcome>>

Commit_CounterOverwritten ==
    /\ pc = "insert"
    /\ InsertFromGap(decompressed)
    /\ decompressed_bytes' = decompressed
    /\ Emit(<<"insert_from_gap", decompressed>>)
    /\ pc' = "maybe_quit"
    /\ UNCHANGED <<begv, beg_addr, multibyte, ghost, start, end, istart, iend,
                   old_pt, compressed_buffer, decoder, decompressed, gap_writer,
                   outcome>>

Commit ==
    /\ pc = "insert"
    /\ InsertFromGap(decompressed)
    /\ decompressed_bytes' = decompressed_bytes + decompressed
    /\ Emit(<<"insert_from_gap", decompressed>>)
    /\ pc' = "maybe_quit"
    /\ UNCHANGED <<begv, beg_addr, multibyte, ghost, start, end, istart, iend,
                   old_pt, compressed_buffer, decoder, decompressed, gap_writer,
                   outcome>>

\* `maybe_quit()`: returns, or unwinds out of the function.
MaybeQuit ==
    /\ pc = "maybe_quit"
    /\ \E quit \in BOOLEAN :
        IF quit THEN pc' = "done" /\ outcome' = "quit"
                ELSE pc' = "loop" /\ outcome' = outcome
    /\ Emit(<<"maybe_quit">>)
    /\ UNCHANGED <<buffer, ghost, locals>>

\* del_range_2(from, from, to, to, false): remove [from, to) without running
\* change hooks; positions after the range shift down, the gap ends at from.
DelRange2(from, to) ==
    /\ text' = DeleteRange(text, from, to)
    /\ gpt' = from
    /\ gap_size' = gap_size + (to - from)
    /\ zv' = PosAfterDelete(zv, from, to)
    /\ pt' = PosAfterDelete(pt, from, to)
    /\ pt_byte' = PosAfterDelete(pt_byte, from, to)

\* Ok(0): `del_range_2(istart, istart, iend, iend, false)`
SuccessDelete ==
    /\ pc = "success_delete"
    /\ LET r == CompressedRange(istart, iend) IN
        /\ DelRange2(r[1], r[2])
        /\ Emit(<<"del_range_2", r[1], r[2]>>)
    /\ pc' = "success_signal"
    /\ UNCHANGED <<begv, beg_addr, multibyte, gap_buf, ghost, locals, outcome>>

\* `signal_after_change(istart, iend - istart, decompressed_bytes)`
SuccessSignal ==
    /\ pc = "success_signal"
    /\ Emit(<<"signal_after_change">>
            \o SuccessChange(istart, iend, decompressed_bytes))
    /\ pc' = "success_update"
    /\ UNCHANGED <<buffer, ghost, locals, outcome>>

\* `update_compositions(istart, istart, CHECK_HEAD); return true`
SuccessReturn_RestorePt ==
    /\ pc = "success_update"
    /\ Emit(<<"update_compositions", istart, istart>>)
    /\ pt' = Min(old_pt, zv)
    /\ pt_byte' = BufCharposToBytepos(Min(old_pt, zv))
    /\ pc' = "done"
    /\ outcome' = "true"
    /\ UNCHANGED <<text, begv, zv, gpt, gap_size, beg_addr, multibyte, gap_buf,
                   ghost, locals>>

SuccessReturn ==
    /\ pc = "success_update"
    /\ Emit(<<"update_compositions", istart, istart>>)
    /\ pc' = "done"
    /\ outcome' = "true"
    /\ UNCHANGED <<buffer, ghost, locals>>

\* Err: `del_range_2(data_start, data_start, data_end, data_end, false)`
FailureDelete ==
    /\ pc = "failure_delete"
    /\ DelRange2(iend, DataEnd(iend, decompressed_bytes))
    /\ Emit(<<"del_range_2", iend, DataEnd(iend, decompressed_bytes)>>)
    /\ pc' = "failure_update"
    /\ UNCHANGED <<begv, beg_addr, multibyte, gap_buf, ghost, locals, outcome>>

\* `update_compositions(data_start, data_start, CHECK_HEAD)`
FailureUpdate ==
    /\ pc = "failure_update"
    /\ Emit(<<"update_compositions", iend, iend>>)
    /\ pc' = "failure_signal"
    /\ UNCHANGED <<buffer, ghost, locals, outcome>>

\* `signal_after_change(data_orig, data_start - data_orig, data_start - data_orig)`
FailureSignal_Skip ==
    /\ pc = "failure_signal"
    /\ pc' = "failure_restore"
    /\ UNCHANGED <<buffer, ghost, locals, outcome, trace>>

FailureSignal ==
    /\ pc = "failure_signal"
    /\ Emit(<<"signal_after_change">>
            \o FailureChange(istart, iend, decompressed_bytes))
    /\ pc' = "failure_restore"
    /\ UNCHANGED <<buffer, ghost, locals, outcome>>

\* `charpos = min(old_pt, current_buffer.zv); set_pt_both(charpos, bytepos);
\*  return false`
FailureReturn ==
    /\ pc = "failure_restore"
    /\ LET charpos == RestoredPt(old_pt, zv) IN
        /\ pt' = charpos
        /\ pt_byte' = BufCharposToBytepos(charpos)
        /\ Emit(<<"set_pt_both", charpos>>)
    /\ pc' = "done"
    /\ outcome' = "false"
    /\ UNCHANGED <<text, begv, zv, gpt, gap_size, beg_addr, multibyte, gap_buf,
                   ghost, locals>>

Next ==
    \/ Call
    \/ CheckUnibyte
    \/ CheckEmpty
    \/ ModifyText
    \/ MoveGapBoth
    \/ SavePtAndSetPt
    \/ AcquireView
    \/ CreateDecoder
    \/ EnsureGap
    \/ ReadEof
    \/ ReadChunk
    \/ ReadErr
    \/ ReadFault
    \/ Commit
    \/ MaybeQuit
    \/ SuccessDelete
    \/ SuccessSignal
    \/ SuccessReturn
    \/ FailureDelete
    \/ FailureUpdate
    \/ FailureSignal
    \/ FailureReturn

Spec == Init /\ [][Next]_vars

TypeOK ==
    /\ pc \in {"call", "check_multibyte", "check_empty", "modify_text",
               "move_gap", "set_pt", "view", "decoder", "loop", "read",
               "insert", "maybe_quit", "success_delete", "success_signal",
               "success_update", "failure_delete", "failure_update",
               "failure_signal", "failure_restore", "done"}
    /\ outcome \in {"none", "true", "false", "error", "args_out_of_range",
                    "quit", "fault", "panic"}
    /\ 1 <= begv /\ begv <= pt /\ pt <= zv /\ zv <= Z
    /\ pt_byte = pt
    /\ gap_size >= 0


\* ------------------------------------------------------------- claims

Count(name) == Cardinality({i \in 1..Len(trace) : trace[i][1] = name})

Where(name) == {i \in 1..Len(trace) : trace[i][1] = name}

RECURSIVE SumLens(_)
SumLens(ss) == IF ss = <<>> THEN 0 ELSE Len(Head(ss)) + SumLens(Tail(ss))

Returned(v) == pc = "done" /\ outcome = v

\* The bytes before start and the bytes from end on, before the call.
Before0 == SubSeq(text0, 1, istart - 1)
After0 == SubSeq(text0, iend, Len(text0))

\* C1 -- Atomicity on failure: when a call on a non-empty region of a
\* unibyte buffer returns false (a read reported an error after k >= 0
\* committed chunks), the buffer content equals, byte for byte, the content
\* before the call.
C1_AtomicityOnFailure ==
    (Returned("false") /\ istart < iend) => text = text0

C1_Witness ==
    Returned("false") /\ istart < iend /\ Len(chunks) >= 1 /\ Count("read") >= 2

\* C2 -- In-place replacement on success: when the decoder yielded the
\* chunks of B and then end-of-stream, the call returns true and the content
\* is (bytes before start) ++ B ++ (bytes from end on).
C2_ReplacementOnSuccess ==
    Returned("true") => text = Before0 \o Flatten(chunks) \o After0

C2_Witness ==
    Returned("true") /\ Len(chunks) >= 2 /\ (Before0 # <<>> \/ After0 # <<>>)

\* C3 (as stated) -- for any position p, a call on the empty region (p, p)
\* returns false, not an error, and changes nothing.
C3_EmptyRegionAnyBuffer ==
    (pc = "done" /\ start = end /\ outcome # "args_out_of_range")
        => (outcome = "false" /\ text = text0 /\ pt = pt0)

\* C3 (amended) -- in a unibyte buffer, a call on the empty region (p, p),
\* p within the accessible portion, returns false and leaves content and
\* cursor as they were, with no pre- or post-change notification and no gap
\* move.
C3_EmptyRegionUnibyte ==
    (pc = "done" /\ start = end /\ ~multibyte /\ outcome # "args_out_of_range")
        => /\ outcome = "false"
           /\ text = text0
           /\ pt = pt0
           /\ Count("modify_text") = 0
           /\ Count("signal_after_change") = 0
           /\ Count("move_gap_both") = 0
           /\ Count("make_gap") = 0
           /\ Count("set_pt_both") = 0

C3_Witness ==
    Returned("false") /\ start = end /\ ~multibyte /\ Len(text) > 0

\* C4 -- Single notification pairing: a call on a non-empty region that
\* returns true or false has emitted exactly one modify_text and, after it,
\* exactly one signal_after_change; at no point are there more.
C4_SingleNotificationPair ==
    LET m == Count("modify_text")
        s == Count("signal_after_change")
    IN  /\ s <= m
        /\ m <= 1
        /\ (pc = "done" /\ outcome \in {"true", "false"} /\ istart < iend)
             => /\ m = 1
                /\ s = 1
                /\ \A i \in Where("modify_text") :
                     \A j \in Where("signal_after_change") : i < j

C4_Witness ==
    /\ Returned("false") /\ istart < iend
    /\ Count("insert_from_gap") = MaxChunks
    /\ Count("del_range_2") = 1

\* C5 -- Success notification payload: the post-change notification of the
\* success path carries (start, end - start, total size of the committed
\* chunks) and is emitted right after the compressed bytes were deleted.
C5_SuccessPayload ==
    pc = "success_update" =>
        /\ trace[Len(trace)] =
             <<"signal_after_change", istart, iend - istart, SumLens(chunks)>>
        /\ trace[Len(trace) - 1] = <<"del_range_2", istart, iend>>
        /\ text = Before0 \o Flatten(chunks) \o After0

C5_Witness ==
    pc = "success_update" /\ SumLens(chunks) > iend - istart

\* C6 -- Failure path order and payload: a failing call ends with the
\* deletion of [end, end + decompressed_bytes), the structure refresh at
\* end, the balancing notification (start, end - start, end - start) and the
\* cursor restoration, in this order, also when no chunk was committed.
C6_FailureOrder ==
    (Returned("false") /\ istart < iend) =>
        LET n == Len(trace) IN
        /\ n >= 4
        /\ trace[n - 3] = <<"del_range_2", iend, iend + SumLens(chunks)>>
        /\ trace[n - 2] = <<"update_compositions", iend, iend>>
        /\ trace[n - 1] =
             <<"signal_after_change", istart, iend - istart, iend - istart>>
        /\ trace[n][1] = "set_pt_both"
        /\ Count("del_range_2") = 1

C6_Witness ==
    Returned("false") /\ istart < iend /\ chunks = <<>>

\* C7 -- Cursor restoration on failure: after a failing call the cursor is
\* at min(p, end of the accessible portion), p the cursor before the call.
C7_CursorRestored ==
    (Returned("false") /\ istart < iend) =>
        pt = (IF pt0 <= zv THEN pt0 ELSE zv)

C7_Witness ==
    Returned("false") /\ istart < iend /\ pt0 < iend /\ pt0 < zv
        /\ Len(chunks) >= 1

\* C8 -- Multibyte buffers fail fast: in a multibyte buffer the call ends
\* with a usage error, never a false return, after region validation and
\* before the empty-region test, with no notification, gap move, cursor
\* change or decoder, and with the content unchanged.
C8_MultibyteFailsFast ==
    (pc = "done" /\ multibyte /\ outcome # "args_out_of_range") =>
        /\ outcome = "error"
        /\ trace = << <<"validate_region">>, <<"multibyte_characters_enabled">> >>
        /\ text = text0
        /\ pt = pt0
        /\ decoder = "none"
        /\ compressed_buffer = NoView

C8_Witness ==
    Returned("error") /\ multibyte /\ start = end /\ Len(text) > 0

\* C9 -- Format detection: the decoder is created once, before any read,
\* from the first byte of the region: 0x78 zlib, 0x1F gzip, otherwise raw
\* deflate; every read of the call uses it, and detection never fails.
C9_FormatDetection ==
    LET c == Count("create_buffer_decoder") IN
    /\ outcome # "panic"
    /\ c <= 1
    /\ decoder # "none" =>
         LET b == text0[istart] IN
         /\ (b = 120 => decoder = "zlib")
         /\ (b = 31 => decoder = "gzip")
         /\ (b \notin {120, 31} => decoder = "deflate")
         /\ c = 1
    /\ \A i \in 1..Len(trace) :
         trace[i][1] = "read" =>
           /\ trace[i][2] = decoder
           /\ decoder # "none"
           /\ \E j \in 1..(i - 1) : trace[j][1] = "create_buffer_decoder"

C9_Witness ==
    /\ Count("read") >= 2
    /\ decoder = "gzip"
    /\ Len(text0) >= 2 /\ iend - istart >= 2 /\ text0[istart + 1] = 120

\* C10 -- The borrowed view stays valid: at every decoder read the slice
\* taken in setup denotes the live bytes [start, end) of the buffer; no
\* make_gap has run since it was taken.
C10_ViewStaysValid ==
    pc = "read" => (ViewLive /\ Count("make_gap") = 0)


\* The compressed bytes [start, end), before the call.
Compressed0 == SubSeq(text0, istart, iend - 1)

\* C11 -- Cancellation leaves partial state: maybe_quit is polled once right
\* after each committed chunk and at no other point; when it unwinds after
\* k >= 1 chunks there is no rollback: the content is (bytes before start)
\* ++ compressed bytes ++ the k chunks ++ (bytes from end on), the cursor is
\* at end + decompressed_bytes, and no signal_after_change has answered the
\* modify_text.
C11_QuitLeavesPartialState ==
    /\ \A i \in 1..Len(trace) :
         /\ trace[i][1] = "maybe_quit"
              => (i > 1 /\ trace[i - 1][1] = "insert_from_gap")
         /\ (trace[i][1] = "insert_from_gap" /\ i < Len(trace))
              => trace[i + 1][1] = "maybe_quit"
    /\ (trace # <<>> /\ trace[Len(trace)][1] = "insert_from_gap")
         <=> pc = "maybe_quit"
    /\ Returned("quit") =>
         /\ Len(chunks) >= 1
         /\ text = Before0 \o Compressed0 \o Flatten(chunks) \o After0
         /\ pt = iend + decompressed_bytes
         /\ pt_byte = iend + decompressed_bytes
         /\ decompressed_bytes = SumLens(chunks)
         /\ Count("modify_text") = 1
         /\ Count("signal_after_change") = 0
         /\ Count("del_range_2") = 0

C11_Witness ==
    Returned("quit") /\ Len(chunks) = 2 /\ pt0 # pt /\ Before0 # <<>>


\* C12 -- Loop invariant: at the start of every iteration of the decode loop
\* the content is (bytes before start) ++ compressed bytes ++ the chunks
\* committed so far ++ (bytes from end on), decompressed_bytes is the total
\* length of those chunks, and the cursor and the gap start are both at
\* end + decompressed_bytes.
C12_LoopInvariant ==
    pc = "loop" =>
        /\ text = Before0 \o Compressed0 \o Flatten(chunks) \o After0
        /\ decompressed_bytes = SumLens(chunks)
        /\ pt = iend + decompressed_bytes
        /\ gpt = iend + decompressed_bytes
        /\ (chunks = <<>> => decompressed_bytes = 0)

C12_Witness ==
    pc = "loop" /\ Len(chunks) = 2 /\ decompressed_bytes >= 2 /\ After0 # <<>>


\* C13 -- Gap capacity bound: before every decoder read the gap holds at
\* least 16384 bytes: make_gap was asked for exactly 16384 - gap_size when
\* the gap was smaller and the gap was left alone otherwise; the output
\* window is 16384 bytes at the gap start as it is after that check; every
\* committed chunk has 0 < N <= 16384 <= gap size, so insert_from_gap never
\* takes more than the gap holds.
C13_GapCapacity ==
    /\ pc = "read" =>
         LET n == Len(trace) IN
         /\ gap_size >= 16384
         /\ IF trace[n][1] = "make_gap"
              THEN /\ trace[n - 1][1] = "gap_size"
                   /\ trace[n - 1][2] < 16384
                   /\ trace[n][2] = 16384 - trace[n - 1][2]
              ELSE /\ trace[n][1] = "gap_size"
                   /\ trace[n][2] >= 16384
                   /\ gap_size = trace[n][2]
    /\ pc = "insert" =>
         LET w == gap_writer IN
         /\ trace[Len(trace)][1] = "read"
         /\ w.len = 16384
         /\ w.base = beg_addr
         /\ w.off = gpt - 1
         /\ 0 < decompressed
         /\ decompressed <= 16384
         /\ 16384 <= gap_size
         /\ Len(gap_buf) = decompressed
    /\ pc = "maybe_quit" => gap_size >= 0

C13_Witness ==
    pc = "insert" /\ Count("make_gap") = 2 /\ beg_addr = 1


\* The calls of setup, in the order of the code.
SetupCalls ==
    <<"modify_text", "move_gap_both", "set_pt_both", "from_raw_parts",
      "create_buffer_decoder">>

\* The calls that grow the gap, write into it, or insert or delete text.
LoopCalls ==
    {"gap_size", "make_gap", "read", "insert_from_gap", "del_range_2"}

\* C14 -- Setup ordering: on a non-empty region of a unibyte buffer,
\* modify_text(start, end) comes first, then move_gap_both(end), then the
\* old cursor is saved and the cursor set to end, then the slice is taken
\* and the decoder created; the first read, and every insertion or
\* deletion, come after all of them, and before modify_text the content is
\* untouched.
C14_SetupOrdering ==
    LET n == Len(trace) IN
    IF n < 3 \/ istart = iend
      THEN /\ n <= 3
           /\ text = text0
           /\ pt = pt0
           /\ old_pt = 0
           /\ compressed_buffer = NoView
           /\ decoder = "none"
           /\ \A i \in 1..n : trace[i][1] \notin LoopCalls
                                /\ trace[i][1] # "modify_text"
      ELSE /\ trace[3][1] = "empty_region_test"
           /\ \A k \in 1..Len(SetupCalls) :
                n >= 3 + k => trace[3 + k][1] = SetupCalls[k]
           /\ \A i \in 1..Min(n, 3 + Len(SetupCalls)) :
                trace[i][1] \notin LoopCalls
           /\ n >= 4 => trace[4] = <<"modify_text", istart, iend>>
           /\ n >= 5 => trace[5] = <<"move_gap_both", iend>>
           /\ n >= 6 => trace[6] = <<"set_pt_both", iend>>
           /\ n <= 5 => (text = text0 /\ pt = pt0 /\ old_pt = 0)
           /\ n = 5 => gpt = iend
           /\ n >= 6 => old_pt = pt0
           /\ n <= 6 => compressed_buffer = NoView
           /\ n <= 7 => (decoder = "none" /\ text = text0)

C14_Witness ==
    pc = "insert" /\ Count("read") = 1 /\ pt0 # iend /\ gpt = iend
        /\ Count("make_gap") = 1


\* The statements of the two exit paths.
ExitPc ==
    {"success_delete", "success_signal", "success_update", "failure_delete",
     "failure_update", "failure_signal", "failure_restore"}

\* C15 -- Termination and single outcome: the call never stops before its
\* end; when the decoder has yielded its chunks and then end-of-stream or an
\* error, the loop is left after exactly (number of chunks + 1) reads, with
\* true on end-of-stream and false on error, and no read follows the read
\* that returned 0 bytes or an error.
C15_SingleOutcome ==
    LET reads == Count("read")
        inserts == Count("insert_from_gap")
    IN  /\ pc # "done" => (outcome = "none" /\ ENABLED Next)
        /\ pc = "done" => outcome # "none"
        /\ reads <= Len(chunks) + 1
        /\ inserts <= Len(chunks)
        /\ (pc \in ExitPc \/ (pc = "done" /\ outcome \in {"true", "false"}
                               /\ istart < iend)) =>
             /\ reads = Len(chunks) + 1
             /\ inserts = Len(chunks)
             /\ \A i \in Where("read") : \A j \in Where("insert_from_gap") :
                  i < j => \E k \in Where("read") : j < k
        /\ Returned("true") =>
             /\ Count("del_range_2") = 1
             /\ Count("update_compositions") = 1
             /\ Count("set_pt_both") = 1
             /\ trace[Len(trace)] = <<"update_compositions", istart, istart>>
        /\ (Returned("false") /\ istart < iend) =>
             /\ Count("del_range_2") = 1
             /\ Count("update_compositions") = 1
             /\ Count("set_pt_both") = 2
             /\ trace[Len(trace)][1] = "set_pt_both"

C15_Witness ==
    /\ pc = "done" /\ outcome \in {"true", "false"} /\ istart < iend
    /\ Len(chunks) = 2 /\ Count("read") = 3


\* C16 -- The cursor is not restored on success: after a call that returns
\* true the cursor is at start + (total decompressed bytes), the end of the
\* decompressed output, whatever it was before the call; the only
\* set_pt_both of the call is the one of setup.
C16_CursorOnSuccess ==
    Returned("true") =>
        /\ pt = istart + SumLens(chunks)
        /\ pt_byte = istart + SumLens(chunks)
        /\ Count("set_pt_both") = 1
        /\ \A i \in Where("set_pt_both") : trace[i] = <<"set_pt_both", iend>>

C16_Witness ==
    Returned("true") /\ pt0 < istart /\ SumLens(chunks) >= 1 /\ pt # pt0


\* C17 -- The clamp of the failure path never fires: when the cursor is
\* restored the rollback has brought the end of the buffer back to where it
\* was before the call, so old_pt <= zv, min(old_pt, zv) = old_pt, and the
\* cursor after every failing call is exactly the cursor before it.
C17_ClampNeverFires ==
    /\ pc = "failure_restore" =>
         /\ zv = Len(text0) + 1
         /\ Len(text) = Len(text0)
         /\ old_pt = pt0
         /\ old_pt <= zv
    /\ (Returned("false") /\ istart < iend) =>
         /\ pt = pt0
         /\ zv = Len(text0) + 1
         /\ trace[Len(trace)] = <<"set_pt_both", pt0>>

C17_Witness ==
    Returned("false") /\ istart < iend /\ pt0 = Len(text0) + 1 /\ pt0 > iend
        /\ SumLens(chunks) >= 2


\* The chunks already committed by insert_from_gap.
Committed ==
    IF pc = "insert" THEN SubSeq(chunks, 1, Len(chunks) - 1) ELSE chunks

\* C18 -- Frame: in every state of a call, whatever its outcome, the bytes
\* before start and the bytes from end on are as before the call and in
\* their order; the compressed bytes stay at [start, end) until the deletion
\* of the success path; the content between them is only ever the chunks
\* appended at end + decompressed_bytes, removed again by the rollback.
C18_Frame ==
    IF istart = 0
      THEN text = text0
      ELSE /\ Len(text) >= Len(Before0) + Len(After0)
           /\ SubSeq(text, 1, istart - 1) = Before0
           /\ SubSeq(text, Len(text) - Len(After0) + 1, Len(text)) = After0
           /\ IF pc \in {"success_signal", "success_update"} \/ Returned("true")
                THEN text = Before0 \o Flatten(chunks) \o After0
                ELSE IF pc \in {"failure_update", "failure_signal",
                                "failure_restore"}
                        \/ Returned("false")
                THEN text = Before0 \o Compressed0 \o After0
                ELSE text = Before0 \o Compressed0 \o Flatten(Committed)
                              \o After0

C18_Witness ==
    /\ Returned("quit") /\ Before0 # <<>>
    /\ text = Before0 \o Compressed0 \o Flatten(chunks) \o After0
    /\ Len(chunks) = 2

====
